---------------------------- MODULE Spec2Model ----------------------------
(***************************************************************************)
(* A model of the task optimizer (src/src/main.cpp): the Sanitizer, the    *)
(* CPU topology cache, the retrying syscall wrappers, the /proc scanner,   *)
(* the statistics counters and the three-tier run of optimizeSystem.       *)
(*                                                                         *)
(* Text is modelled as sequences of one-character strings, a std::vector   *)
(* as a sequence, and every answer of the operating system (a directory    *)
(* listing, the content of a file, the result of a system call) as an      *)
(* input chosen when the code asks for it.                                 *)
(***************************************************************************)
EXTENDS Integers, Sequences, FiniteSets, TLC

(***************************************************************************)
(* Program constants.                                                      *)
(***************************************************************************)
MAX_RETRIES == 3

RETRY_DELAY_MS == 50

PID_CEILING == 99999

MAX_PATTERN_LEN == 100

FREQ_THRESHOLD == 2000000

PROBE_LIMIT == 16

(***************************************************************************)
(* Bounds of the model.                                                    *)
(***************************************************************************)
\* longest sysfs listing whose cores are enumerated answer by answer
MaxCores == 2

\* number of hot-plug events (a core going offline) during one run
MaxSysfsChanges == 1

Threads == {"main", "t1", "t2"}

Clients == {"t1", "t2"}

Getters == {"perf", "eff", "all"}

\* the threads that share one StatsTracker
Workers == {"w1", "w2", "w3"}

RECURSIVE SeqsUpTo(_, _)
SeqsUpTo(S, n) ==
    IF n = 0 THEN {<<>>}
    ELSE LET shorter == SeqsUpTo(S, n - 1)
         IN  shorter \cup {Append(s, x) : s \in {q \in shorter : Len(q) = n - 1}, x \in S}

Range(s) == {s[i] : i \in 1..Len(s)}

VARIABLES
    sysfs,        \* cpuN/cpufreq/cpuinfo_max_freq of core N-1, as the kernel answers now
    sysfsChanges, \* hot-plug events so far
    guard,        \* initialisation guard of each getter's function-local static
    cache,        \* each getter's function-local static CoreInfo
    gpc,          \* where each thread is inside a getter call
    gfn,          \* the getter each thread called last
    gres,         \* the mask that call returned
    detectCalls,  \* number of times detectCores has run
    log,          \* lines handed to Logger::log since the current top-level call began
    pc,           \* where the main thread is
    exitCode,     \* what main returned (-1: it has not)
    phase,        \* the part of optimizeSystem that is running
    patIdx,       \* index, in its table, of the pattern being processed
    pids,         \* optimizePattern: the process IDs not yet visited
    tids,         \* optimizePattern: the thread IDs, of the current process, not yet visited
    curTid,       \* the thread ID the optimizer was called with
    sysIdx,       \* the optimizer lambda: which of its chained calls is running
    retry,        \* the retry loop's counter
    trace,        \* the attempts and sleeps of the current retrying call, in order
    opRet,        \* what the last retrying call returned
    stats,        \* StatsTracker's three counters
    reports,      \* number of times StatsTracker::report has run
    call,         \* what the current optimizePattern call has done so far
    started,      \* optimizePattern calls begun, per tier
    completed,    \* optimizePattern calls returned, per tier
    patIn,        \* the pattern handed to isValidPattern
    patChecked,   \* isValidPattern has returned
    patOk,        \* what it returned
    wpc,          \* where each worker thread is inside recordSuccess / recordFailure
    recBegun,     \* calls of recordSuccess and of recordFailure begun by the workers
    recReturned,  \* ... and returned
    scanArg,      \* one call of optimizePattern or getThreadIDs: its argument, and
                  \* what the directory listing answers
    scanRes,      \* what getProcessIDs, or getThreadIDs, returned
    scanPc        \* where that call is

topoVars == <<sysfs, sysfsChanges, guard, cache, gpc, gfn, gres, detectCalls>>

runVars ==
    <<pc, exitCode, phase, patIdx, pids, tids, curTid, sysIdx, retry, trace, opRet,
      stats, reports, call, started, completed>>

\* the main thread's variables other than the counters
mainVars ==
    <<pc, exitCode, phase, patIdx, pids, tids, curTid, sysIdx, retry, trace, opRet,
      reports, call, started, completed>>

\* the variables of the checks of single functions and classes
patVars == <<patIn, patChecked, patOk>>

statVars == <<wpc, recBegun, recReturned>>

scanVars == <<scanArg, scanRes, scanPc>>

auxVars == <<patVars, statVars, scanVars>>

vars == <<topoVars, runVars, auxVars, log>>

(***************************************************************************)
(* Logger::log(message, isError): a line is a record of its fixed text and *)
(* of the values spliced into it.                                          *)
(***************************************************************************)
LogLine(isError, msg, op, tid, pat) ==
    [err |-> isError, msg |-> msg, op |-> op, tid |-> tid, pat |-> pat]

TopologyWarning ==
    LogLine(TRUE, "Failed to detect CPU topology, using defaults", "", 0, <<>>)

(***************************************************************************)
(* CPUTopology                                                             *)
(***************************************************************************)
\* What opening and reading one cpuinfo_max_freq file can give:
\*   absent  - the file cannot be opened
\*   value   - the file holds the number v
\*   garbage - the file holds text that is no number: operator>> stores 0
\*   empty   - nothing can be read: operator>> leaves maxFreq as it was,
\*             uninitialised
Absent == [kind |-> "absent", v |-> 0]

Garbage == [kind |-> "garbage", v |-> 0]

Empty == [kind |-> "empty", v |-> 0]

Freq(v) == [kind |-> "value", v |-> v]

Freqs == {FREQ_THRESHOLD, FREQ_THRESHOLD + 1}

CoreAnswers == {Absent, Garbage, Empty} \cup {Freq(v) : v \in Freqs}

\* the values an uninitialised int can hold, either side of the threshold
JunkValues == {0, FREQ_THRESHOLD + 1}

\* the iteration at which an allocation fails (-1: none does)
ThrowPoints == {-1, 0, 1}

ReadCore(fs, i) == IF i + 1 <= Len(fs) THEN fs[i + 1] ELSE Absent

EmptyInfo == [perfCores |-> <<>>, effCores |-> <<>>, totalCores |-> 0]

DefaultInfo ==
    [perfCores |-> <<4, 5, 6, 7>>, effCores |-> <<0, 1, 2, 3>>, totalCores |-> 8]

IsPerfFreq(maxFreq) == maxFreq > FREQ_THRESHOLD

ProbeMore(i) == i < PROBE_LIMIT

RECURSIVE detectLoop(_, _, _, _, _)
detectLoop(i, info, fs, junk, throwAt) ==
    IF ~ProbeMore(i) THEN [info |-> info, threw |-> FALSE]
    ELSE IF throwAt = i THEN [info |-> info, threw |-> TRUE]
    ELSE LET a == ReadCore(fs, i)
         IN  IF a.kind = "absent" THEN [info |-> info, threw |-> FALSE]
             ELSE LET maxFreq == CASE a.kind = "value" -> a.v
                                   [] a.kind = "garbage" -> 0
                                   [] OTHER -> junk
                      counted == [info EXCEPT !.totalCores = @ + 1]
                      next == IF IsPerfFreq(maxFreq)
                              THEN [counted EXCEPT !.perfCores = Append(@, i)]
                              ELSE [counted EXCEPT !.effCores = Append(@, i)]
                  IN  detectLoop(i + 1, next, fs, junk, throwAt)

OnProbeException(partial) == [info |-> DefaultInfo, log |-> <<TopologyWarning>>]

detectCores(fs, junk, throwAt) ==
    LET r == detectLoop(0, EmptyInfo, fs, junk, throwAt)
    IN  IF r.threw THEN OnProbeException(r.info)
        ELSE [info |-> r.info, log |-> <<>>]

\* the cpu_set_t each getter builds from its own static
MaskOf(f, info) ==
    CASE f = "perf" -> Range(info.perfCores)
      [] f = "eff" -> Range(info.effCores)
      [] OTHER -> 0..(info.totalCores - 1)

\* static CoreInfo info = detectCores(); is reached with the static
\* initialised: the getter builds its mask from it and returns.
GetterCached(t, f) ==
    /\ gpc[t] = "idle"
    /\ guard[f] = "done"
    /\ gpc' = [gpc EXCEPT ![t] = "returned"]
    /\ gfn' = [gfn EXCEPT ![t] = f]
    /\ gres' = [gres EXCEPT ![t] = MaskOf(f, cache[f])]
    /\ UNCHANGED <<sysfs, sysfsChanges, guard, cache, detectCalls>>

\* ... reached first: the thread takes the guard of this getter's static.
\* A thread that finds the guard taken waits (neither action is enabled).
GetterBeginInit(t, f) ==
    /\ gpc[t] = "idle"
    /\ guard[f] = "uninit"
    /\ guard' = [guard EXCEPT ![f] = "busy"]
    /\ gpc' = [gpc EXCEPT ![t] = "detecting"]
    /\ gfn' = [gfn EXCEPT ![t] = f]
    /\ UNCHANGED <<sysfs, sysfsChanges, cache, gres, detectCalls>>

\* detectCores runs, the static is set, the mask is built and returned.
GetterDetect(t) ==
    /\ gpc[t] = "detecting"
    /\ \E junk \in JunkValues, throwAt \in ThrowPoints :
          LET d == detectCores(sysfs, junk, throwAt)
              f == gfn[t]
          IN  /\ cache' = [cache EXCEPT ![f] = d.info]
              /\ guard' = [guard EXCEPT ![f] = "done"]
              /\ gres' = [gres EXCEPT ![t] = MaskOf(f, d.info)]
              /\ log' = log \o d.log
    /\ detectCalls' = detectCalls + 1
    /\ gpc' = [gpc EXCEPT ![t] = "returned"]
    /\ UNCHANGED <<sysfs, sysfsChanges, gfn>>

\* The caller takes the mask the getter returned.
GetterTaken(t) ==
    /\ gpc[t] = "returned"
    /\ gpc' = [gpc EXCEPT ![t] = "idle"]
    /\ UNCHANGED <<sysfs, sysfsChanges, guard, cache, gfn, gres, detectCalls>>

\* A client thread calls one of the getters, and takes its result.
ClientCallCached(t) ==
    /\ \E f \in Getters : GetterCached(t, f)
    /\ UNCHANGED <<runVars, auxVars, log>>

ClientCallFirst(t) ==
    /\ \E f \in Getters : GetterBeginInit(t, f)
    /\ UNCHANGED <<runVars, auxVars, log>>

ClientDetect(t) ==
    /\ GetterDetect(t)
    /\ UNCHANGED <<runVars, auxVars>>

ClientReturn(t) ==
    /\ GetterTaken(t)
    /\ UNCHANGED <<runVars, auxVars, log>>

\* The environment: the highest core goes offline and its cpufreq
\* directory disappears.
CoreOffline ==
    /\ sysfsChanges < MaxSysfsChanges
    /\ Len(sysfs) > 0
    /\ sysfs' = SubSeq(sysfs, 1, Len(sysfs) - 1)
    /\ sysfsChanges' = sysfsChanges + 1
    /\ UNCHANGED <<guard, cache, gpc, gfn, gres, detectCalls, runVars, auxVars, log>>

TopoStart ==
    /\ sysfsChanges = 0
    /\ guard = [f \in Getters |-> "uninit"]
    /\ cache = [f \in Getters |-> EmptyInfo]
    /\ gpc = [t \in Threads |-> "idle"]
    /\ gfn = [t \in Threads |-> "perf"]
    /\ gres = [t \in Threads |-> {}]
    /\ detectCalls = 0


(***************************************************************************)
(* Sanitizer                                                               *)
(***************************************************************************)
INT_MAX == 2147483647

Digits == {"0", "1", "2", "3", "4", "5", "6", "7", "8", "9"}

\* the grave accent (ASCII 96), which no string of this language can hold
GraveAccent == "grave"

\* the argument of find_first_of in isValidPattern
ForbiddenChars ==
    {";", "&", "|", GraveAccent, "$", "(", ")", "{", "}", "[", "]", "<", ">"}

\* a variant for which the ceiling itself is a valid ID
isValidPIDInclusive(pid, exists) == pid > 0 /\ pid <= PID_CEILING /\ exists

\* exists is what fs::exists("/proc/<pid>") answers at the time of the call
isValidPID(pid, exists) == pid > 0 /\ pid < PID_CEILING /\ exists

\* a variant that accepts every pattern
isValidPatternAny(pattern) == TRUE

\* a variant that accepts a pattern of exactly MAX_PATTERN_LEN characters
isValidPatternInclusive(pattern) ==
    /\ Len(pattern) <= MAX_PATTERN_LEN
    /\ \A i \in 1..Len(pattern) : pattern[i] \notin ForbiddenChars

isValidPattern(pattern) ==
    /\ Len(pattern) < MAX_PATTERN_LEN
    /\ \A i \in 1..Len(pattern) : pattern[i] \notin ForbiddenChars

(***************************************************************************)
(* config: the three task tables                                           *)
(***************************************************************************)
HIGH_PRIO_TASKS ==
    << <<"s", "e", "r", "v", "i", "c", "e", "m", "a", "n", "a", "g">>,
       <<"z", "y", "g", "o", "t", "e">>,
       <<"s", "y", "s", "t", "e", "m", "_", "s", "e", "r", "v", "e", "r">>,
       <<"s", "u", "r", "f", "a", "c", "e", "f", "l", "i", "n", "g", "e", "r">>,
       <<"k", "b", "l", "o", "c", "k", "d">>,
       <<"w", "r", "i", "t", "e", "b", "a", "c", "k">>,
       <<"I", "n", "p", "u", "t">>,
       <<"c", "o", "m", "p", "o", "s", "e", "r">> >>

RT_TASKS ==
    << <<"k", "g", "s", "l", "_", "w", "o", "r", "k", "e", "r", "_", "t", "h", "r", "e", "a", "d">>,
       <<"c", "r", "t", "c", "_", "c", "o", "m", "m", "i", "t">>,
       <<"c", "r", "t", "c", "_", "e", "v", "e", "n", "t">>,
       <<"p", "p", "_", "e", "v", "e", "n", "t">>,
       <<"f", "t", "s", "_", "w", "q">>,
       <<"n", "v", "t", "_", "t", "s", "_", "w", "o", "r", "k">> >>

LOW_PRIO_TASKS ==
    << <<"f", "2", "f", "s", "_", "g", "c">>,
       <<"w", "l", "a", "n", "_", "l", "o", "g", "g", "i", "n", "g", "_", "t", "h">> >>

(***************************************************************************)
(* ProcessUtils                                                            *)
(***************************************************************************)
\* std::all_of(name.begin(), name.end(), ::isdigit): true of the empty name
AllDigits(s) == \A i \in 1..Len(s) : s[i] \in Digits

DigitVal(c) ==
    CASE c = "0" -> 0 [] c = "1" -> 1 [] c = "2" -> 2 [] c = "3" -> 3 [] c = "4" -> 4
      [] c = "5" -> 5 [] c = "6" -> 6 [] c = "7" -> 7 [] c = "8" -> 8 [] OTHER -> 9

RECURSIVE DecimalValue(_)
DecimalValue(s) ==
    IF s = <<>> THEN 0
    ELSE 10 * DecimalValue(SubSeq(s, 1, Len(s) - 1)) + DigitVal(s[Len(s)])

\* std::stoi of a name made of digits: it throws invalid_argument for the
\* empty name and out_of_range for a value no int holds
StoiThrows(s) == s = <<>> \/ DecimalValue(s) > INT_MAX

stoi(s) == DecimalValue(s)

\* std::regex_search(comm, regex) for a pattern without regular-expression
\* operators (every pattern of the tables is one): the pattern occurs
\* somewhere in comm
regex_search(comm, pattern) ==
    \E k \in 0..(Len(comm) - Len(pattern)) :
        \A i \in 1..Len(pattern) : comm[k + i] = pattern[i]

\* What getProcessIDs returns is modelled with what it logged and with
\* scanned: whether it reached the directory_iterator over /proc.
\* A /proc listing as one scan sees it:
\*   rootOk  - directory_iterator("/proc", ec) could open the directory
\*   entries - the entries in the order the iterator yields them, each with
\*             what the scan is answered when it asks about that entry
\*   failAt  - the iterator's increment throws on reaching this entry
\*             (0: it never throws)
ProcEntry(name, isDir, exists, readable, comm) ==
    [name |-> name, isDir |-> isDir, exists |-> exists, readable |-> readable,
     comm |-> comm]

InvalidPatternLine(pattern) == LogLine(TRUE, "Invalid pattern: ", "", 0, pattern)

ScanErrorLine(where) == LogLine(TRUE, where, "", 0, <<>>)

RECURSIVE procLoop(_, _, _, _)
procLoop(in, pattern, k, found) ==
    IF k > Len(in.entries) THEN [pids |-> found, threw |-> in.failAt = k]
    ELSE IF in.failAt = k THEN [pids |-> found, threw |-> TRUE]
    ELSE LET e == in.entries[k]
         IN  IF ~e.isDir THEN procLoop(in, pattern, k + 1, found)
             ELSE IF ~AllDigits(e.name) THEN procLoop(in, pattern, k + 1, found)
             ELSE IF StoiThrows(e.name) THEN [pids |-> found, threw |-> TRUE]
             ELSE IF ~isValidPID(stoi(e.name), e.exists)
                  THEN procLoop(in, pattern, k + 1, found)
             ELSE IF e.readable /\ regex_search(e.comm, pattern)
                  THEN procLoop(in, pattern, k + 1, Append(found, stoi(e.name)))
             ELSE procLoop(in, pattern, k + 1, found)

getProcessIDs(pattern, in) ==
    IF ~isValidPattern(pattern)
    THEN [pids |-> <<>>, log |-> <<InvalidPatternLine(pattern)>>, scanned |-> FALSE]
    ELSE IF ~in.rootOk THEN [pids |-> <<>>, log |-> <<>>, scanned |-> TRUE]
    ELSE LET r == procLoop(in, pattern, 1, <<>>)
         IN  [pids |-> r.pids,
              log |-> IF r.threw THEN <<ScanErrorLine("Error in getProcessIDs: ")>>
                      ELSE <<>>,
              scanned |-> TRUE]

\* A /proc/<pid>/task listing as one scan sees it: pidExists is what
\* isValidPID(pid) is answered, the rest is as for /proc.
TaskEntry(name, isDir, exists) == [name |-> name, isDir |-> isDir, exists |-> exists]

RECURSIVE taskLoop(_, _, _)
taskLoop(in, k, found) ==
    IF k > Len(in.entries) THEN [tids |-> found, threw |-> in.failAt = k]
    ELSE IF in.failAt = k THEN [tids |-> found, threw |-> TRUE]
    ELSE LET e == in.entries[k]
         IN  IF ~e.isDir THEN taskLoop(in, k + 1, found)
             ELSE IF ~AllDigits(e.name) THEN taskLoop(in, k + 1, found)
             ELSE IF StoiThrows(e.name) THEN [tids |-> found, threw |-> TRUE]
             ELSE IF isValidPID(stoi(e.name), e.exists)
                  THEN taskLoop(in, k + 1, Append(found, stoi(e.name)))
             ELSE taskLoop(in, k + 1, found)

getThreadIDs(pid, in) ==
    IF ~isValidPID(pid, in.pidExists) THEN [tids |-> <<>>, log |-> <<>>]
    ELSE IF ~in.rootOk THEN [tids |-> <<>>, log |-> <<>>]
    ELSE LET r == taskLoop(in, 1, <<>>)
         IN  [tids |-> r.tids,
              log |-> IF r.threw THEN <<ScanErrorLine("Error in getThreadIDs: ")>>
                      ELSE <<>>]

(***************************************************************************)
(* SyscallOptimizer                                                        *)
(***************************************************************************)
SyscallOps == {"setAffinity", "setNice", "setRT", "setIOPrio"}

\* What one attempt is answered: whether /proc/<tid> exists when the
\* attempt validates the thread ID, and what the system call returns and
\* leaves in errno if it is made.
SysAnswers ==
    {[exists |-> x, ret |-> r.ret, errno |-> r.errno] :
        x \in BOOLEAN,
        r \in {[ret |-> 0, errno |-> 0], [ret |-> -1, errno |-> 1], [ret |-> -1, errno |-> 3]}}

\* the success test each ...Direct function applies to its system call
SyscallSucceeded(op, ans) ==
    IF op = "setNice" THEN ans.ret = 0 \/ ans.errno = 0
    ELSE ans.ret = 0

SyscallName(op) ==
    CASE op = "setAffinity" -> "sched_setaffinity"
      [] op = "setNice" -> "setpriority"
      [] op = "setRT" -> "sched_setscheduler"
      [] OTHER -> "ioprio_set"

\* a variant that makes the system call without validating the thread ID
DirectUnchecked(op, tid, ans) ==
    IF SyscallSucceeded(op, ans)
    THEN [success |-> TRUE, error |-> "", called |-> TRUE]
    ELSE [success |-> FALSE, error |-> SyscallName(op), called |-> TRUE]

\* setAffinityDirect, setNiceDirect, setRTDirect, setIOPrioDirect:
\* called records whether the system call was made
Direct(op, tid, ans) ==
    IF ~isValidPID(tid, ans.exists)
    THEN [success |-> FALSE, error |-> "Invalid TID", called |-> FALSE]
    ELSE IF SyscallSucceeded(op, ans)
    THEN [success |-> TRUE, error |-> "", called |-> TRUE]
    ELSE [success |-> FALSE, error |-> SyscallName(op), called |-> TRUE]

\* variants: a loop that makes one pass more, a sleep after the first
\* failure only
RetryLoopCondInclusive(r) == r <= MAX_RETRIES

SleepOnlyOnce(r) == r < MAX_RETRIES - 2

\* the retry loop's condition, and the test that guards its sleep
RetryLoopCond(r) == r < MAX_RETRIES

SleepBeforeRetry(r) == r < MAX_RETRIES - 1

\* one attempt as observed: exists is what fs::exists answered in it,
\* called whether it made the system call
AttemptEvent(op, res, ans) ==
    [ev |-> IF res.success THEN "ok" ELSE IF res.called THEN "fail" ELSE "invalid",
     op |-> op, ms |-> 0, exists |-> ans.exists, called |-> res.called]

SleepEvent(op) == [ev |-> "sleep", op |-> op, ms |-> RETRY_DELAY_MS]

(***************************************************************************)
(* StatsTracker                                                            *)
(***************************************************************************)
NewStats == [successCount |-> 0, failureCount |-> 0, totalOps |-> 0]

\* variants: a success tallied twice, a failure not tallied, an increment
\* of the total lost, the total raised by two
IncTotalTwice(s) == [s EXCEPT !.totalOps = @ + 2]

IncTotalLost(s) == [s EXCEPT !.totalOps = IF @ > 0 THEN @ ELSE @ + 1]

IncSuccessTwice(s) == [s EXCEPT !.successCount = @ + 2]

IncFailureNone(s) == s

IncSuccess(s) == [s EXCEPT !.successCount = @ + 1]

IncFailure(s) == [s EXCEPT !.failureCount = @ + 1]

IncTotal(s) == [s EXCEPT !.totalOps = @ + 1]

ReportLine(s) ==
    [err |-> FALSE, msg |-> "Operations: | Success: | Failed: ", op |-> "",
     tid |-> 0, pat |-> <<s.totalOps, s.successCount, s.failureCount>>]

(***************************************************************************)
(* What the scans of a run can be answered.                                *)
(***************************************************************************)
\* most entries of one /proc listing, and of one task listing
MaxProcEntries == 2

MaxTaskEntries == 2

\* most thread IDs the scans of one run enumerate
MaxOps == 2

CommNames ==
    { <<"z", "y", "g", "o", "t", "e", "6", "4">>,
      <<"c", "r", "t", "c", "_", "c", "o", "m", "m", "i", "t">>,
      <<"f", "2", "f", "s", "_", "g", "c", "-", "2", "5", "3", ":", "0">>,
      <<"s", "h">> }

NumericNames == {<<"1">>, <<"2">>}

ProcEntries ==
    {ProcEntry(<<"s", "e", "l", "f">>, TRUE, TRUE, TRUE, <<"s", "h">>)}
        \cup {ProcEntry(n, FALSE, TRUE, TRUE, <<"s", "h">>) : n \in NumericNames}
        \cup {ProcEntry(n, TRUE, FALSE, FALSE, <<>>) : n \in NumericNames}
        \cup {ProcEntry(n, TRUE, TRUE, FALSE, <<>>) : n \in NumericNames}
        \cup {ProcEntry(n, TRUE, TRUE, TRUE, c) : n \in NumericNames, c \in CommNames}

DistinctNames(s) == \A i, j \in 1..Len(s) : i /= j => s[i].name /= s[j].name

FailPoints(s) == {0} \cup 2..(Len(s) + 1)

ProcInputs ==
    {[rootOk |-> FALSE, entries |-> <<>>, failAt |-> 0]}
        \cup {[rootOk |-> TRUE, entries |-> s, failAt |-> f] :
                 s \in {q \in SeqsUpTo(ProcEntries, MaxProcEntries) : DistinctNames(q)},
                 f \in 0..(MaxProcEntries + 1)}

TaskEntries ==
    {TaskEntry(n, d, x) : n \in NumericNames, d \in BOOLEAN, x \in BOOLEAN}

TaskInputs ==
    {[pidExists |-> px, rootOk |-> ok, entries |-> s, failAt |-> f] :
        px \in BOOLEAN, ok \in BOOLEAN,
        s \in {q \in SeqsUpTo(TaskEntries, MaxTaskEntries) : DistinctNames(q)},
        f \in 0..(MaxTaskEntries + 1)}

WellFormed(in) == in.failAt \in FailPoints(in.entries)

TablePatterns == Range(HIGH_PRIO_TASKS) \cup Range(RT_TASKS) \cup Range(LOW_PRIO_TASKS)

\* what getProcessIDs can return for each pattern of the tables, and
\* getThreadIDs for each process ID
ProcScanResults ==
    [p \in TablePatterns |-> {getProcessIDs(p, in) : in \in {i \in ProcInputs : WellFormed(i)}}]

ThreadScanResults ==
    [pid \in {stoi(n) : n \in NumericNames} |->
        {getThreadIDs(pid, in) : in \in {i \in TaskInputs : WellFormed(i)}}]

(***************************************************************************)
(* optimizeSystem and TaskOptimizer::optimizePattern                       *)
(***************************************************************************)
Tiers == {"High", "RT", "Low"}

TierTable(ph) ==
    CASE ph = "High" -> HIGH_PRIO_TASKS
      [] ph = "RT" -> RT_TASKS
      [] OTHER -> LOW_PRIO_TASKS

OpLabel(ph) ==
    CASE ph = "High" -> "high_prio"
      [] ph = "RT" -> "rt"
      [] OTHER -> "low_prio"

SysCall(op, val, getter) == [op |-> op, val |-> val, getter |-> getter]

\* the calls each tier's lambda chains with &&, in the order written
TierChain(ph) ==
    CASE ph = "High" -> <<SysCall("setNice", -10, "none"), SysCall("setAffinity", 0, "perf")>>
      [] ph = "RT" -> <<SysCall("setRT", 50, "none"), SysCall("setAffinity", 0, "perf")>>
      [] OTHER -> <<SysCall("setNice", 5, "none"), SysCall("setAffinity", 0, "eff"),
                    SysCall("setIOPrio", 3, "none")>>

NextPhase(ph) ==
    CASE ph = "Start" -> "High"
      [] ph = "High" -> "RT"
      [] ph = "RT" -> "Low"
      [] ph = "Low" -> "Report"
      [] OTHER -> "Done"

Banner(ph) ==
    LogLine(FALSE,
            CASE ph = "Start" -> "=== Starting Advanced System Optimization ==="
              [] ph = "High" -> "Optimizing high priority tasks..."
              [] ph = "RT" -> "Optimizing real-time tasks..."
              [] ph = "Low" -> "Optimizing low priority tasks..."
              [] OTHER -> "=== System Optimization Completed ===",
            "", 0, <<>>)

NoProcessLine(pattern) == LogLine(FALSE, "No processes found for: ", "", 0, pattern)

FailedLine(label, tid) == LogLine(TRUE, "Failed for TID", label, tid, <<>>)

\* a variant that leaves the loop before the table's last pattern
MorePatternsButLast(ph, idx) == idx < Len(TierTable(ph)) - 1

\* the range-for over a tier's table has a pattern left after this one
MorePatterns(ph, idx) == idx < Len(TierTable(ph))

CurPattern == TierTable(phase)[patIdx]

CurCall == TierChain(phase)[sysIdx]

\* one call of optimizePattern as observed: the counters at its entry, its
\* label, the processes found, the thread IDs enumerated, the optimizer
\* calls made, those that returned true, the thread IDs of those that
\* returned false; prior: the optimizer calls made by earlier calls;
\* chain: what the retrying calls of the current optimizer call returned
NewCall(label, n) ==
    [entry |-> stats, label |-> label, nPids |-> n, enumerated |-> 0, invoked |-> 0,
     optTrue |-> 0, failed |-> <<>>, prior |-> call.prior + call.invoked, chain |-> <<>>]

NoCall ==
    [entry |-> NewStats, label |-> "", nPids |-> 0, enumerated |-> 0, invoked |-> 0,
     optTrue |-> 0, failed |-> <<>>, prior |-> 0, chain |-> <<>>]

\* a retrying call of the chain has returned
ChainEntry == [op |-> CurCall.op, val |-> CurCall.val, ret |-> opRet]

Bump(f, ph) == [f EXCEPT ![ph] = @ + 1]

\* main: create_directories fails, main returns 1
MainSetupFails ==
    /\ pc = "main"
    /\ pc' = "exit"
    /\ exitCode' = 1
    /\ UNCHANGED <<phase, patIdx, pids, tids, curTid, sysIdx, retry, trace, opRet, stats,
                   reports, call, started, completed, topoVars, log, auxVars>>

\* main calls optimizeSystem, which constructs the optimizer and reaches
\* the first loop
OptimizeSystemStart ==
    /\ pc = "main"
    /\ pc' = "pattern"
    /\ phase' = NextPhase(phase)
    /\ patIdx' = 1
    /\ stats' = NewStats
    /\ log' = log \o <<Banner("Start"), Banner(NextPhase(phase))>>
    /\ UNCHANGED <<exitCode, pids, tids, curTid, sysIdx, retry, trace, opRet, reports,
                   call, started, completed, topoVars, auxVars>>

\* optimizePattern returns to the loop that called it: the next pattern of
\* the table, or the code after the loop
ReturnToLoop(lines) ==
    IF MorePatterns(phase, patIdx)
    THEN /\ phase' = phase
         /\ patIdx' = patIdx + 1
         /\ pc' = "pattern"
         /\ log' = lines
    ELSE /\ phase' = NextPhase(phase)
         /\ patIdx' = IF NextPhase(phase) \in Tiers THEN 1 ELSE 0
         /\ pc' = IF NextPhase(phase) \in Tiers THEN "pattern" ELSE "report"
         /\ log' = IF NextPhase(phase) \in Tiers
                   THEN Append(lines, Banner(NextPhase(phase)))
                   ELSE lines

\* a variant of the next action that tallies the pattern as one failure
OptimizePatternNoneCounted ==
    /\ pc = "pattern"
    /\ \E r \in ProcScanResults[CurPattern] :
          /\ r.pids = <<>>
          /\ ReturnToLoop(r.log \o <<NoProcessLine(CurPattern)>>)
    /\ call' = NewCall(OpLabel(phase), 0)
    /\ stats' = IncTotal(IncFailure(stats))
    /\ started' = Bump(started, phase)
    /\ completed' = Bump(completed, phase)
    /\ UNCHANGED <<exitCode, pids, tids, curTid, sysIdx, retry, trace, opRet,
                   reports, topoVars, auxVars>>

\* optimizePattern: getProcessIDs finds nothing
OptimizePatternNone ==
    /\ pc = "pattern"
    /\ \E r \in ProcScanResults[CurPattern] :
          /\ r.pids = <<>>
          /\ ReturnToLoop(r.log \o <<NoProcessLine(CurPattern)>>)
    /\ call' = NewCall(OpLabel(phase), 0)
    /\ started' = Bump(started, phase)
    /\ completed' = Bump(completed, phase)
    /\ UNCHANGED <<exitCode, pids, tids, curTid, sysIdx, retry, trace, opRet, stats,
                   reports, topoVars, auxVars>>

\* optimizePattern: getProcessIDs finds processes
OptimizePatternFound ==
    /\ pc = "pattern"
    /\ \E r \in ProcScanResults[CurPattern] :
          /\ r.pids /= <<>>
          /\ pids' = r.pids
          /\ log' = r.log
          /\ call' = NewCall(OpLabel(phase), Len(r.pids))
    /\ pc' = "pid"
    /\ started' = Bump(started, phase)
    /\ UNCHANGED <<exitCode, phase, patIdx, tids, curTid, sysIdx, retry, trace, opRet,
                   stats, reports, completed, topoVars, auxVars>>

\* the loop over pids: the next process's threads are enumerated
ScanThreads ==
    /\ pc = "pid"
    /\ pids /= <<>>
    /\ \E r \in ThreadScanResults[Head(pids)] :
          /\ stats.totalOps + Len(r.tids) <= MaxOps
          /\ tids' = r.tids
          /\ log' = log \o r.log
          /\ call' = [call EXCEPT !.enumerated = @ + Len(r.tids)]
    /\ pids' = Tail(pids)
    /\ pc' = "tid"
    /\ UNCHANGED <<exitCode, phase, patIdx, curTid, sysIdx, retry, trace, opRet, stats,
                   reports, started, completed, topoVars, auxVars>>

\* the loop over pids ends: optimizePattern returns
PatternDone ==
    /\ pc = "pid"
    /\ pids = <<>>
    /\ ReturnToLoop(log)
    /\ completed' = Bump(completed, phase)
    /\ UNCHANGED <<exitCode, pids, tids, curTid, sysIdx, retry, trace, opRet, stats,
                   reports, call, started, topoVars, auxVars>>

\* the loop over tids ends
ThreadsDone ==
    /\ pc = "tid"
    /\ tids = <<>>
    /\ pc' = "pid"
    /\ UNCHANGED <<exitCode, phase, patIdx, pids, tids, curTid, sysIdx, retry, trace,
                   opRet, stats, reports, call, started, completed, topoVars, log, auxVars>>

\* the loop over tids: optimizer(tid) is called
CallOptimizer ==
    /\ pc = "tid"
    /\ tids /= <<>>
    /\ curTid' = Head(tids)
    /\ tids' = Tail(tids)
    /\ sysIdx' = 1
    /\ call' = [call EXCEPT !.invoked = @ + 1, !.chain = <<>>]
    /\ pc' = "call"
    /\ UNCHANGED <<exitCode, phase, patIdx, pids, retry, trace, opRet, stats, reports,
                   started, completed, topoVars, log, auxVars>>

\* the lambda evaluates the mask argument of setAffinity
LambdaMaskCached ==
    /\ pc = "call"
    /\ CurCall.getter /= "none"
    /\ GetterCached("main", CurCall.getter)
    /\ pc' = "arg"
    /\ UNCHANGED <<exitCode, phase, patIdx, pids, tids, curTid, sysIdx, retry, trace,
                   opRet, stats, reports, call, started, completed, log, auxVars>>

LambdaMaskFirst ==
    /\ pc = "call"
    /\ CurCall.getter /= "none"
    /\ GetterBeginInit("main", CurCall.getter)
    /\ pc' = "arg"
    /\ UNCHANGED <<exitCode, phase, patIdx, pids, tids, curTid, sysIdx, retry, trace,
                   opRet, stats, reports, call, started, completed, log, auxVars>>

LambdaMaskDetect ==
    /\ pc = "arg"
    /\ GetterDetect("main")
    /\ UNCHANGED <<runVars, auxVars>>

\* the lambda calls the retrying function: its loop starts
CallSyscallPlain ==
    /\ pc = "call"
    /\ CurCall.getter = "none"
    /\ retry' = 0
    /\ trace' = <<>>
    /\ pc' = "attempt"
    /\ UNCHANGED <<exitCode, phase, patIdx, pids, tids, curTid, sysIdx, opRet, stats,
                   reports, call, started, completed, topoVars, log, auxVars>>

CallSyscallWithMask ==
    /\ pc = "arg"
    /\ GetterTaken("main")
    /\ retry' = 0
    /\ trace' = <<>>
    /\ pc' = "attempt"
    /\ UNCHANGED <<exitCode, phase, patIdx, pids, tids, curTid, sysIdx, opRet, stats,
                   reports, call, started, completed, log, auxVars>>

\* setAffinity, setNice, setRT, setIOPrio: one pass of the loop body up to
\* the sleep
Attempt ==
    /\ pc = "attempt"
    /\ \E ans \in SysAnswers :
          LET res == Direct(CurCall.op, curTid, ans)
          IN  /\ trace' = Append(trace, AttemptEvent(CurCall.op, res, ans))
              /\ IF res.success
                 THEN /\ opRet' = TRUE
                      /\ pc' = "opret"
                      /\ retry' = retry
                 ELSE IF SleepBeforeRetry(retry)
                 THEN /\ pc' = "sleep"
                      /\ UNCHANGED <<opRet, retry>>
                 ELSE /\ retry' = retry + 1
                      /\ pc' = IF RetryLoopCond(retry + 1) THEN "attempt" ELSE "opret"
                      /\ opRet' = IF RetryLoopCond(retry + 1) THEN opRet ELSE FALSE
    /\ UNCHANGED <<exitCode, phase, patIdx, pids, tids, curTid, sysIdx, stats, reports,
                   call, started, completed, topoVars, log, auxVars>>

\* ... the sleep, and the loop's increment and test
Sleep ==
    /\ pc = "sleep"
    /\ trace' = Append(trace, SleepEvent(CurCall.op))
    /\ retry' = retry + 1
    /\ pc' = IF RetryLoopCond(retry + 1) THEN "attempt" ELSE "opret"
    /\ opRet' = IF RetryLoopCond(retry + 1) THEN opRet ELSE FALSE
    /\ UNCHANGED <<exitCode, phase, patIdx, pids, tids, curTid, sysIdx, stats, reports,
                   call, started, completed, topoVars, log, auxVars>>

\* a variant whose next call is made whatever the last one returned
ChainNextAlways ==
    /\ pc = "opret"
    /\ sysIdx < Len(TierChain(phase))
    /\ sysIdx' = sysIdx + 1
    /\ call' = [call EXCEPT !.chain = Append(@, ChainEntry)]
    /\ pc' = "call"
    /\ UNCHANGED <<exitCode, phase, patIdx, pids, tids, curTid, retry, trace, opRet,
                   stats, reports, started, completed, topoVars, log, auxVars>>

\* the lambda's &&: the next call is made only after a true
ChainNext ==
    /\ pc = "opret"
    /\ opRet
    /\ sysIdx < Len(TierChain(phase))
    /\ sysIdx' = sysIdx + 1
    /\ call' = [call EXCEPT !.chain = Append(@, ChainEntry)]
    /\ pc' = "call"
    /\ UNCHANGED <<exitCode, phase, patIdx, pids, tids, curTid, retry, trace, opRet,
                   stats, reports, started, completed, topoVars, log, auxVars>>

\* optimizer(tid) returns true: recordSuccess is called
OptimizerTrue ==
    /\ pc = "opret"
    /\ opRet
    /\ sysIdx = Len(TierChain(phase))
    /\ call' = [call EXCEPT !.optTrue = @ + 1, !.chain = Append(@, ChainEntry)]
    /\ pc' = "success1"
    /\ UNCHANGED <<exitCode, phase, patIdx, pids, tids, curTid, sysIdx, retry, trace,
                   opRet, stats, reports, started, completed, topoVars, log, auxVars>>

\* optimizer(tid) returns false: recordFailure is called
OptimizerFalse ==
    /\ pc = "opret"
    /\ ~opRet
    /\ call' = [call EXCEPT !.failed = Append(@, curTid), !.chain = Append(@, ChainEntry)]
    /\ pc' = "failure1"
    /\ UNCHANGED <<exitCode, phase, patIdx, pids, tids, curTid, sysIdx, retry, trace,
                   opRet, stats, reports, started, completed, topoVars, log, auxVars>>

\* recordSuccess: ++successCount; ++totalOps;
RecordSuccessFirst ==
    /\ pc = "success1"
    /\ stats' = IncSuccess(stats)
    /\ pc' = "success2"
    /\ UNCHANGED <<exitCode, phase, patIdx, pids, tids, curTid, sysIdx, retry, trace,
                   opRet, reports, call, started, completed, topoVars, log, auxVars>>

RecordSuccessSecond ==
    /\ pc = "success2"
    /\ stats' = IncTotal(stats)
    /\ pc' = "tid"
    /\ UNCHANGED <<exitCode, phase, patIdx, pids, tids, curTid, sysIdx, retry, trace,
                   opRet, reports, call, started, completed, topoVars, log, auxVars>>

\* recordFailure: ++failureCount; ++totalOps;
RecordFailureFirst ==
    /\ pc = "failure1"
    /\ stats' = IncFailure(stats)
    /\ pc' = "failure2"
    /\ UNCHANGED <<exitCode, phase, patIdx, pids, tids, curTid, sysIdx, retry, trace,
                   opRet, reports, call, started, completed, topoVars, log, auxVars>>

RecordFailureSecond ==
    /\ pc = "failure2"
    /\ stats' = IncTotal(stats)
    /\ pc' = "logfail"
    /\ UNCHANGED <<exitCode, phase, patIdx, pids, tids, curTid, sysIdx, retry, trace,
                   opRet, reports, call, started, completed, topoVars, log, auxVars>>

\* the failure is logged, and the loop over tids goes on
LogFailure ==
    /\ pc = "logfail"
    /\ log' = Append(log, FailedLine(OpLabel(phase), curTid))
    /\ pc' = "tid"
    /\ UNCHANGED <<exitCode, phase, patIdx, pids, tids, curTid, sysIdx, retry, trace,
                   opRet, stats, reports, call, started, completed, topoVars, auxVars>>

\* after the third loop: reportStats, the closing line, and main returns 0
Report ==
    /\ pc = "report"
    /\ log' = log \o <<ReportLine(stats), Banner("Report")>>
    /\ reports' = reports + 1
    /\ phase' = NextPhase(phase)
    /\ exitCode' = 0
    /\ pc' = "exit"
    /\ UNCHANGED <<patIdx, pids, tids, curTid, sysIdx, retry, trace, opRet, stats, call,
                   started, completed, topoVars, auxVars>>

\* main's catch (const std::exception&): the error is logged, main returns 1
CriticalLine == LogLine(TRUE, "Critical error: ", "", 0, <<>>)

MainCatch ==
    /\ pc' = "aborted"
    /\ exitCode' = 1
    /\ log' = Append(log, CriticalLine)

\* getThreadIDs: fs::exists, called by isValidPID(pid) before the try
\* block, throws filesystem_error (stat fails with an error other than
\* "no such entry"); nothing up to main catches it
ThreadScanThrows ==
    /\ pc = "pid"
    /\ pids /= <<>>
    /\ MainCatch
    /\ UNCHANGED <<phase, patIdx, pids, tids, curTid, sysIdx, retry, trace, opRet, stats,
                   reports, call, started, completed, topoVars, auxVars>>

\* set...Direct: fs::exists, called by isValidPID(tid), throws; the retry
\* loop, the lambda, optimizePattern and optimizeSystem let it pass
AttemptThrows ==
    /\ pc = "attempt"
    /\ MainCatch
    /\ UNCHANGED <<phase, patIdx, pids, tids, curTid, sysIdx, retry, trace, opRet, stats,
                   reports, call, started, completed, topoVars, auxVars>>

RunStart ==
    /\ pc = "main"
    /\ exitCode = -1
    /\ phase = "Start"
    /\ patIdx = 0
    /\ pids = <<>>
    /\ tids = <<>>
    /\ curTid = 0
    /\ sysIdx = 1
    /\ retry = 0
    /\ trace = <<>>
    /\ opRet = FALSE
    /\ stats = NewStats
    /\ reports = 0
    /\ call = NoCall
    /\ started = [ph \in Tiers |-> 0]
    /\ completed = [ph \in Tiers |-> 0]

\* the main thread does not run: only the getters are exercised
MainIdle ==
    /\ pc = "off"
    /\ exitCode = -1
    /\ phase = "Start"
    /\ patIdx = 0
    /\ pids = <<>>
    /\ tids = <<>>
    /\ curTid = 0
    /\ sysIdx = 1
    /\ retry = 0
    /\ trace = <<>>
    /\ opRet = FALSE
    /\ reports = 0
    /\ call = NoCall
    /\ started = [ph \in Tiers |-> 0]
    /\ completed = [ph \in Tiers |-> 0]

RunIdle ==
    /\ MainIdle
    /\ stats = NewStats

PatIdle ==
    /\ patIn = <<>>
    /\ patChecked = FALSE
    /\ patOk = FALSE

\* no worker thread uses the StatsTracker
StatIdle ==
    /\ wpc = [w \in Workers |-> <<"idle", 0>>]
    /\ recBegun = [success |-> 0, failure |-> 0]
    /\ recReturned = [success |-> 0, failure |-> 0]

NoScanArg ==
    [kind |-> "none", pattern |-> <<>>, pid |-> 0, entry |-> NewStats,
     in |-> [rootOk |-> FALSE, entries |-> <<>>, failAt |-> 0]]

NoScanRes == [ids |-> <<>>, log |-> <<>>, scanned |-> FALSE]

ScanIdle ==
    /\ scanArg = NoScanArg
    /\ scanRes = NoScanRes
    /\ scanPc = "off"

AuxIdle ==
    /\ PatIdle
    /\ StatIdle
    /\ ScanIdle

\* a run on a machine of one efficiency core and one performance core
Init ==
    /\ sysfs = <<Freq(FREQ_THRESHOLD), Freq(FREQ_THRESHOLD + 1)>>
    /\ TopoStart
    /\ RunStart
    /\ AuxIdle
    /\ log = <<>>

Next ==
    \/ MainSetupFails
    \/ OptimizeSystemStart
    \/ OptimizePatternNone
    \/ OptimizePatternFound
    \/ ScanThreads
    \/ PatternDone
    \/ ThreadsDone
    \/ CallOptimizer
    \/ LambdaMaskCached
    \/ LambdaMaskFirst
    \/ LambdaMaskDetect
    \/ CallSyscallPlain
    \/ CallSyscallWithMask
    \/ Attempt
    \/ Sleep
    \/ ChainNext
    \/ OptimizerTrue
    \/ OptimizerFalse
    \/ RecordSuccessFirst
    \/ RecordSuccessSecond
    \/ RecordFailureFirst
    \/ RecordFailureSecond
    \/ LogFailure
    \/ Report
    \/ ThreadScanThrows
    \/ AttemptThrows

Spec == Init /\ [][Next]_vars

\* the sysfs listings the model starts from: every short one, and uniform
\* ones that reach and pass the probe limit
SysfsStates ==
    SeqsUpTo(CoreAnswers, MaxCores)
        \cup {[i \in 1..n |-> Freq(v)] : n \in {PROBE_LIMIT, PROBE_LIMIT + 1}, v \in Freqs}

TopoInit ==
    /\ sysfs \in SysfsStates
    /\ TopoStart
    /\ RunIdle
    /\ AuxIdle
    /\ log = <<>>

TopoNext ==
    \/ \E t \in Clients : ClientCallCached(t)
    \/ \E t \in Clients : ClientCallFirst(t)
    \/ \E t \in Clients : ClientDetect(t)
    \/ \E t \in Clients : ClientReturn(t)
    \/ CoreOffline

SpecTopo == TopoInit /\ [][TopoNext]_vars

(***************************************************************************)
(* Sanitizer::isValidPattern on its own: patterns of the lengths around    *)
(* the limit, made of one filler character with one other character at     *)
(* either end.                                                             *)
(***************************************************************************)
PatternLens ==
    {0, 1, 2, MAX_PATTERN_LEN - 2, MAX_PATTERN_LEN - 1, MAX_PATTERN_LEN, MAX_PATTERN_LEN + 1}

PatternChars == ForbiddenChars \cup {"a", "_", ".", "*"}

PatternInputs ==
    {[i \in 1..n |-> IF i = at THEN c ELSE "a"] :
        n \in PatternLens, at \in {1, 2, MAX_PATTERN_LEN - 1, MAX_PATTERN_LEN}, c \in PatternChars}

PatternInit ==
    /\ patIn \in PatternInputs
    /\ patChecked = FALSE
    /\ patOk = FALSE
    /\ StatIdle
    /\ ScanIdle
    /\ sysfs = <<>>
    /\ TopoStart
    /\ RunIdle
    /\ log = <<>>

CheckPattern ==
    /\ ~patChecked
    /\ patOk' = isValidPattern(patIn)
    /\ patChecked' = TRUE
    /\ UNCHANGED <<patIn, statVars, scanVars, topoVars, runVars, log>>

PatternNext == CheckPattern

SpecPattern == PatternInit /\ [][PatternNext]_vars

(***************************************************************************)
(* StatsTracker shared by several threads: each worker calls recordSuccess *)
(* and recordFailure, whose two atomic increments are two steps.           *)
(***************************************************************************)
\* most calls the workers make in one behaviour
MaxRecordCalls == 3

RecordKinds == {"success", "failure"}

StatsInit ==
    /\ StatIdle
    /\ PatIdle
    /\ ScanIdle
    /\ sysfs = <<>>
    /\ TopoStart
    /\ RunIdle
    /\ log = <<>>

\* a worker calls recordSuccess or recordFailure
RecordBegin(w) ==
    /\ wpc[w] = <<"idle", 0>>
    /\ recBegun.success + recBegun.failure < MaxRecordCalls
    /\ \E k \in RecordKinds :
          /\ wpc' = [wpc EXCEPT ![w] = <<k, 1>>]
          /\ recBegun' = [recBegun EXCEPT ![k] = @ + 1]
    /\ UNCHANGED <<stats, recReturned, patVars, scanVars, mainVars, topoVars, log>>

\* ++successCount, or ++failureCount: one atomic read-modify-write
RecordFirst(w) ==
    /\ wpc[w] \in {<<k, 1>> : k \in RecordKinds}
    /\ stats' = IF wpc[w][1] = "success" THEN IncSuccess(stats) ELSE IncFailure(stats)
    /\ wpc' = [wpc EXCEPT ![w] = <<wpc[w][1], 2>>]
    /\ UNCHANGED <<recBegun, recReturned, patVars, scanVars, mainVars, topoVars, log>>

\* ++totalOps, and the call returns
RecordSecond(w) ==
    /\ wpc[w] \in {<<k, 2>> : k \in RecordKinds}
    /\ stats' = IncTotal(stats)
    /\ wpc' = [wpc EXCEPT ![w] = <<"idle", 0>>]
    /\ recReturned' = [recReturned EXCEPT ![wpc[w][1]] = @ + 1]
    /\ UNCHANGED <<recBegun, patVars, scanVars, mainVars, topoVars, log>>

StatsNext ==
    \/ \E w \in Workers : RecordBegin(w)
    \/ \E w \in Workers : RecordFirst(w)
    \/ \E w \in Workers : RecordSecond(w)

SpecStats == StatsInit /\ [][StatsNext]_vars

(***************************************************************************)
(* One call of optimizePattern up to its loop, and one call of             *)
(* getThreadIDs, over listings whose entries vanish while they are read.   *)
(***************************************************************************)
\* most entries of one listing
MaxScanEntries == 2

\* entry names: two small IDs and the first ID the ceiling excludes
ScanNames == NumericNames \cup {<<"9", "9", "9", "9", "9">>}

\* two patterns of the tables' kind, one with a forbidden character, one
\* that is too long
ScanPatterns ==
    { <<"z", "y", "g", "o", "t", "e">>,
      <<"s", "h">>,
      <<"z", ";">>,
      [i \in 1..MAX_PATTERN_LEN |-> "a"] }

ScanComms == {<<"z", "y", "g", "o", "t", "e", "6", "4">>, <<"s", "h">>}

\* an entry of /proc: /proc/self; a process that is gone when is_directory
\* asks, when fs::exists asks, when comm is opened; a process that stays
ScanProcEntries ==
    {ProcEntry(<<"s", "e", "l", "f">>, TRUE, TRUE, TRUE, <<"s", "h">>)}
        \cup {ProcEntry(n, FALSE, FALSE, FALSE, <<>>) : n \in ScanNames}
        \cup {ProcEntry(n, TRUE, FALSE, FALSE, <<>>) : n \in ScanNames}
        \cup {ProcEntry(n, TRUE, TRUE, FALSE, <<>>) : n \in ScanNames}
        \cup {ProcEntry(n, TRUE, TRUE, TRUE, c) : n \in ScanNames, c \in ScanComms}

ScanProcInputs ==
    {[rootOk |-> FALSE, entries |-> <<>>, failAt |-> 0]}
        \cup {[rootOk |-> TRUE, entries |-> q, failAt |-> f] :
                 q \in {x \in SeqsUpTo(ScanProcEntries, MaxScanEntries) : DistinctNames(x)},
                 f \in 0..(MaxScanEntries + 1)}

ScanTaskEntries ==
    {TaskEntry(n, d, x) : n \in ScanNames, d \in BOOLEAN, x \in BOOLEAN}

ScanTaskInputs ==
    {[pidExists |-> px, rootOk |-> ok, entries |-> q, failAt |-> f] :
        px \in BOOLEAN, ok \in BOOLEAN,
        q \in {x \in SeqsUpTo(ScanTaskEntries, MaxScanEntries) : DistinctNames(x)},
        f \in 0..(MaxScanEntries + 1)}

\* the counters when the call is made
ScanStats == {NewStats, [successCount |-> 1, failureCount |-> 1, totalOps |-> 2]}

\* optimizePattern(p, ...) called with the counters at st, over listing i
PatternArg(p, st, i) ==
    [kind |-> "pattern", pattern |-> p, pid |-> 0, entry |-> st, in |-> i]

\* getThreadIDs(pid) called over listing i
TaskArg(pid, i) ==
    [kind |-> "task", pattern |-> <<>>, pid |-> pid, entry |-> NewStats, in |-> i]

ScanInit ==
    /\ \/ \E p \in ScanPatterns, st \in ScanStats, i \in ScanProcInputs :
             WellFormed(i) /\ scanArg = PatternArg(p, st, i)
       \/ \E n \in ScanNames, i \in ScanTaskInputs :
             WellFormed(i) /\ scanArg = TaskArg(stoi(n), i)
    /\ scanRes = NoScanRes
    /\ scanPc = "ready"
    /\ stats = scanArg.entry
    /\ MainIdle
    /\ PatIdle
    /\ StatIdle
    /\ sysfs = <<>>
    /\ TopoStart
    /\ log = <<>>

\* optimizePattern: auto pids = ProcessUtils::getProcessIDs(pattern);
ScanProcesses ==
    /\ scanPc = "ready"
    /\ scanArg.kind = "pattern"
    /\ LET r == getProcessIDs(scanArg.pattern, scanArg.in)
       IN  /\ scanRes' = [ids |-> r.pids, log |-> r.log, scanned |-> r.scanned]
           /\ log' = log \o r.log
    /\ scanPc' = "scanned"
    /\ UNCHANGED <<scanArg, patVars, statVars, runVars, topoVars>>

\* optimizePattern: pids.empty(): the line is logged and the call returns
PatternSkip ==
    /\ scanPc = "scanned"
    /\ scanRes.ids = <<>>
    /\ log' = Append(log, NoProcessLine(scanArg.pattern))
    /\ scanPc' = "returned"
    /\ UNCHANGED <<scanArg, scanRes, patVars, statVars, runVars, topoVars>>

\* optimizePattern: the loop over pids is entered
PatternProceed ==
    /\ scanPc = "scanned"
    /\ scanRes.ids /= <<>>
    /\ scanPc' = "loop"
    /\ UNCHANGED <<scanArg, scanRes, patVars, statVars, runVars, topoVars, log>>

\* auto tids = ProcessUtils::getThreadIDs(pid);
ScanTasks ==
    /\ scanPc = "ready"
    /\ scanArg.kind = "task"
    /\ LET r == getThreadIDs(scanArg.pid, scanArg.in)
       IN  /\ scanRes' = [ids |-> r.tids, log |-> r.log,
                          scanned |-> isValidPID(scanArg.pid, scanArg.in.pidExists)]
           /\ log' = log \o r.log
    /\ scanPc' = "listed"
    /\ UNCHANGED <<scanArg, patVars, statVars, runVars, topoVars>>

ScanNext ==
    \/ ScanProcesses
    \/ PatternSkip
    \/ PatternProceed
    \/ ScanTasks

SpecScan == ScanInit /\ [][ScanNext]_vars

(***************************************************************************)
(* The retry loop                                                          *)
(***************************************************************************)
FailedAttempt(e) == e.ev \in {"fail", "invalid"}

IsSleep(e) == e.ev = "sleep" /\ e.ms = 50

\* the retrying call has returned and its caller has not gone on
Returned == pc = "opret"

\* C1: a retrying call (setAffinity, setNice, setRT, setIOPrio) that
\* returns false has made exactly 3 attempts, every one failed, with one
\* sleep of RETRY_DELAY_MS between each two and none after the last; and
\* no call makes more than 3 attempts.
C1_ExhaustedRetries ==
    /\ pc \in {"attempt", "sleep", "opret"} =>
          \A i \in 1..Len(trace) : trace[i].op = CurCall.op
    /\ Cardinality({i \in 1..Len(trace) : trace[i].ev /= "sleep"}) <= 3
    /\ (Returned /\ ~opRet) =>
          /\ Len(trace) = 5
          /\ \A i \in {1, 3, 5} : FailedAttempt(trace[i])
          /\ \A i \in {2, 4} : IsSleep(trace[i])
    /\ (~Returned /\ pc \in {"attempt", "sleep"}) =>
          \A i \in 1..Len(trace) : FailedAttempt(trace[i]) \/ IsSleep(trace[i])

C1_Witness ==
    /\ Returned
    /\ ~opRet
    /\ CurCall.op = "setIOPrio"
    /\ Len(trace) = 5
    /\ trace[1].ev = "invalid"
    /\ trace[5].ev = "fail"

\* C2: a retrying call whose first successful attempt is attempt k returns
\* true right after it, with k attempts and k-1 sleeps made; nothing
\* follows a success.
C2_FirstSuccessReturns ==
    /\ \A i \in 1..Len(trace) : trace[i].ev = "ok" => i = Len(trace)
    /\ (trace /= <<>> /\ trace[Len(trace)].ev = "ok") => pc \notin {"attempt", "sleep"}
    /\ (Returned /\ opRet) =>
          \E k \in 1..3 :
             /\ Len(trace) = 2 * k - 1
             /\ trace[2 * k - 1].ev = "ok"
             /\ \A j \in 1..(k - 1) :
                   FailedAttempt(trace[2 * j - 1]) /\ IsSleep(trace[2 * j])
    /\ (pc \in {"attempt", "sleep"}) => ~(trace /= <<>> /\ trace[Len(trace)].ev = "ok")

C2_Witness ==
    /\ Returned
    /\ opRet
    /\ CurCall.op = "setAffinity"
    /\ Len(trace) = 5
    /\ trace[5].ev = "ok"

(***************************************************************************)
(* optimizePattern                                                         *)
(***************************************************************************)
\* optimizePattern is not running
BetweenCalls == pc \in {"pattern", "report", "exit"}

\* C3: a call of optimizePattern whose process discovery returned nothing
\* leaves the three counters as they were and never calls the optimizer.
C3_NoMatchNoCount ==
    (call.nPids = 0) => (stats = call.entry /\ call.invoked = 0 /\ call.enumerated = 0)

C3_Witness ==
    /\ pc = "pattern"
    /\ started["High"] >= 2
    /\ call.nPids = 0
    /\ stats.totalOps = 2
    /\ \E i \in 1..Len(log) : log[i].msg = "No processes found for: "

\* C4: when every optimizer call of one optimizePattern call returned true,
\* the call has added to successCount and to totalOps exactly the number of
\* thread IDs enumerated and has left failureCount alone; one process of
\* two threads gives two successes and no "No processes found" line.
C4_SuccessPerThread ==
    (BetweenCalls /\ call.failed = <<>>) =>
        /\ stats.successCount = call.entry.successCount + call.enumerated
        /\ stats.totalOps = call.entry.totalOps + call.enumerated
        /\ stats.failureCount = call.entry.failureCount
        /\ (call.nPids = 1 /\ call.enumerated = 2) =>
              /\ stats.successCount = call.entry.successCount + 2
              /\ \A i \in 1..Len(log) : log[i].msg /= "No processes found for: "

C4_Witness ==
    /\ BetweenCalls
    /\ call.failed = <<>>
    /\ call.label = "high_prio"
    /\ call.nPids = 1
    /\ call.enumerated = 2
    /\ stats.successCount = 2
    /\ stats.failureCount = 0

FailedLines == SelectSeq(log, LAMBDA l : l.msg = "Failed for TID")

\* C5: whenever optimizePattern is between two threads, every thread whose
\* optimizer call returned false has been tallied as one failure (failed
\* and attempted one up, succeeded unchanged) and has one error line with
\* its ID and the label, in order; and when the call returns, every
\* enumerated thread has been processed, failures or not.
C5_FailurePerThread ==
    (pc \in {"tid", "pid"} \/ (BetweenCalls /\ phase /= "Start")) =>
        /\ stats.failureCount = call.entry.failureCount + Len(call.failed)
        /\ stats.successCount = call.entry.successCount + call.optTrue
        /\ stats.totalOps = call.entry.totalOps + call.optTrue + Len(call.failed)
        /\ Len(FailedLines) = Len(call.failed)
        /\ \A i \in 1..Len(call.failed) :
              FailedLines[i] = [err |-> TRUE, msg |-> "Failed for TID", op |-> call.label,
                                tid |-> call.failed[i], pat |-> <<>>]
        /\ BetweenCalls => call.optTrue + Len(call.failed) = call.enumerated

C5_Witness ==
    /\ pc = "tid"
    /\ call.label = "rt"
    /\ call.failed = <<1>>
    /\ call.optTrue = 1
    /\ call.enumerated = 2
    /\ tids = <<>>

(***************************************************************************)
(* CPUTopology                                                             *)
(***************************************************************************)
PerfSet == Range(cache["perf"].perfCores)

EffSet == Range(cache["eff"].effCores)

AllSet == 0..(cache["all"].totalCores - 1)

\* C6: once the three getters have been called, the performance set and
\* the efficiency set are disjoint, and the all-cores set is their union
\* and has totalCores members.
C6_TopologyPartition ==
    (\A f \in Getters : guard[f] = "done") =>
        /\ PerfSet \cap EffSet = {}
        /\ AllSet = PerfSet \cup EffSet
        /\ Cardinality(AllSet) = cache["all"].totalCores

\* C7: a detection that finds the max-frequency file of core 0 unreadable
\* yields the default topology and logs the warning.
C7_Core0UnreadableDefaults ==
    [][\A t \in Threads :
          (gpc[t] = "detecting" /\ gpc'[t] = "returned" /\ ReadCore(sysfs, 0).kind = "absent")
              => (cache'[gfn[t]] = DefaultInfo /\ TopologyWarning \in Range(log'))]_vars

\* C8: detectCores runs exactly once, whatever getters are called and by
\* whichever threads.
C8_DetectOnce ==
    /\ detectCalls <= 1
    /\ (\E f \in Getters : guard[f] = "done") => detectCalls = 1

(***************************************************************************)
(* Sanitizer                                                               *)
(***************************************************************************)
\* C9: isValidPattern(p) is true exactly when p is shorter than 100
\* characters and holds none of ; & | grave-accent $ ( ) { } [ ] < > : a
\* clean pattern of 99 characters is accepted, one of 100 is rejected.
C9_ValidPattern ==
    patChecked =>
        /\ patOk <=> ( /\ Len(patIn) <= 99
                       /\ \A i \in 1..Len(patIn) :
                             patIn[i] \notin {";", "&", "|", "grave", "$", "(", ")", "{", "}",
                                              "[", "]", "<", ">"} )
        /\ Len(patIn) >= 100 => ~patOk

C9_Witness ==
    /\ patChecked
    /\ patOk
    /\ Len(patIn) = 99
    /\ patIn[99] = "*"

(***************************************************************************)
(* optimizeSystem                                                          *)
(***************************************************************************)
Full(ph) == completed[ph] = Len(TierTable(ph))

\* C10: the run goes Start, HighPriority, RealTime, LowPriority, Report,
\* Done: no pattern of a tier is started before every pattern of the tier
\* before it has returned, with all its processes and threads visited; the
\* report is made once, after the last LowPriority pattern.
C10_TierOrder ==
    /\ \A ph \in Tiers :
          /\ completed[ph] <= started[ph]
          /\ started[ph] <= completed[ph] + 1
          /\ started[ph] <= Len(TierTable(ph))
          /\ started[ph] > completed[ph] => (phase = ph /\ ~BetweenCalls)
    /\ started["High"] > 0 => phase /= "Start"
    /\ started["RT"] > 0 => (Full("High") /\ phase \notin {"Start", "High"})
    /\ started["Low"] > 0 => (Full("RT") /\ phase \notin {"Start", "High", "RT"})
    /\ phase = "High" => (started["RT"] = 0 /\ started["Low"] = 0)
    /\ phase = "RT" => started["Low"] = 0
    /\ phase = "Report" => (Full("High") /\ Full("RT") /\ Full("Low") /\ pc = "report")
    /\ reports <= 1
    /\ reports = 1 <=> phase = "Done"
    /\ phase = "Done" => (Full("High") /\ Full("RT") /\ Full("Low") /\ exitCode = 0)
    /\ BetweenCalls => (pids = <<>> /\ tids = <<>> /\ call.invoked = call.enumerated)

C10_Witness ==
    /\ phase = "Done"
    /\ reports = 1
    /\ stats.successCount = 1
    /\ stats.failureCount = 1
    /\ \E i \in 1..Len(log) :
          log[i].msg = "Operations: | Success: | Failed: " /\ log[i].pat = <<2, 1, 1>>

(***************************************************************************)
(* main                                                                    *)
(***************************************************************************)
\* C11: once the log directory has been created, main ends only with every
\* pattern of the three tiers processed, the report made and exit code 0,
\* whatever the scans and the system calls are answered.
C11_NoAbort ==
    /\ pc /= "aborted"
    /\ (phase /= "Start" /\ pc = "exit") =>
          /\ exitCode = 0
          /\ reports = 1
          /\ \A ph \in Tiers : Full(ph)

(***************************************************************************)
(* StatsTracker                                                            *)
(***************************************************************************)
\* the workers that have made the first increment of a call of kind k and
\* not yet the second
Halfway(k) == {w \in Workers : wpc[w] = <<k, 2>>}

CountersExact ==
    /\ stats.successCount = recReturned.success + Cardinality(Halfway("success"))
    /\ stats.failureCount = recReturned.failure + Cardinality(Halfway("failure"))
    /\ stats.totalOps = recReturned.success + recReturned.failure
    /\ (\A w \in Workers : wpc[w] = <<"idle", 0>>) =>
          /\ stats.successCount = recBegun.success
          /\ stats.failureCount = recBegun.failure
          /\ stats.totalOps = recBegun.success + recBegun.failure

CountersGrow ==
    /\ stats'.successCount >= stats.successCount
    /\ stats'.failureCount >= stats.failureCount
    /\ stats'.totalOps >= stats.totalOps

\* C12: with several threads calling recordSuccess and recordFailure in any
\* interleaving, no increment is lost and no counter ever decreases; once
\* every call has returned, succeeded is the number of recordSuccess calls,
\* failed the number of recordFailure calls, attempted their sum.
C12_NoLostIncrement == []CountersExact /\ [][CountersGrow]_vars

C12_Witness ==
    /\ \A w \in Workers : wpc[w] = <<"idle", 0>>
    /\ recBegun = [success |-> 2, failure |-> 1]
    /\ stats = [successCount |-> 2, failureCount |-> 1, totalOps |-> 3]

(***************************************************************************)
(* ProcessUtils                                                            *)
(***************************************************************************)
\* the Sanitizer's rule, written out
Rejected(p) ==
    \/ Len(p) >= 100
    \/ \E i \in 1..Len(p) :
          p[i] \in {";", "&", "|", "grave", "$", "(", ")", "{", "}", "[", "]", "<", ">"}

PatternCall == scanArg.kind = "pattern" /\ scanPc /= "ready"

\* C13: for a pattern the Sanitizer rejects, getProcessIDs returns the
\* empty sequence without reaching the /proc listing and logs the
\* rejection; optimizePattern then returns with the counters as they were,
\* never entering its loop over processes.
C13_InvalidPatternSkipped ==
    (PatternCall /\ Rejected(scanArg.pattern)) =>
        /\ scanRes.ids = <<>>
        /\ ~scanRes.scanned
        /\ scanRes.log = <<[err |-> TRUE, msg |-> "Invalid pattern: ", op |-> "", tid |-> 0,
                            pat |-> scanArg.pattern]>>
        /\ scanPc \in {"scanned", "returned"}
        /\ stats = scanArg.entry

C13_Witness ==
    /\ scanArg.kind = "pattern"
    /\ scanPc = "returned"
    /\ scanArg.pattern = <<"z", ";">>
    /\ scanArg.in.rootOk
    /\ Len(scanArg.in.entries) = 2
    /\ scanArg.in.entries[1].comm = <<"z", "y", "g", "o", "t", "e", "6", "4">>
    /\ stats.totalOps = 2

\* C14: when /proc cannot be read at all, getProcessIDs returns the empty
\* sequence and has logged an error.
C14_RootUnreadableLogged ==
    (PatternCall /\ ~Rejected(scanArg.pattern) /\ ~scanArg.in.rootOk) =>
        /\ scanRes.ids = <<>>
        /\ \E i \in 1..Len(scanRes.log) : scanRes.log[i].err

\* the value of an entry's name, and the entries given as directories with
\* a numeric name whose ID is in range and present when it is checked
NameValue(e) == DecimalValue(e.name)

Checked(e) ==
    /\ e.isDir
    /\ \A i \in 1..Len(e.name) : e.name[i] \in Digits
    /\ 0 < NameValue(e)
    /\ NameValue(e) < 99999
    /\ e.exists

Matching(e) == Checked(e) /\ e.readable /\ regex_search(e.comm, scanArg.pattern)

IdsOf(es) == [i \in 1..Len(es) |-> NameValue(es[i])]

\* a listing that is read to its end, with entries vanishing on the way
ListingRead == scanArg.in.rootOk /\ scanArg.in.failAt = 0

\* C15: over a /proc whose entries vanish during the scan, getProcessIDs
\* returns, in listing order, exactly the entries with a numeric name that
\* passed the ID check and whose command name could be read and matches;
\* a vanished entry is left out and the entries after it are still
\* examined. getThreadIDs does the same over a task directory, without the
\* command name.
C15_VanishedEntriesSkipped ==
    /\ (PatternCall /\ ~Rejected(scanArg.pattern) /\ ListingRead) =>
          /\ scanRes.ids = IdsOf(SelectSeq(scanArg.in.entries, Matching))
          /\ scanRes.log = <<>>
    /\ (scanArg.kind = "task" /\ scanPc = "listed" /\ ListingRead
            /\ scanArg.pid < 99999 /\ scanArg.in.pidExists) =>
          /\ scanRes.ids = IdsOf(SelectSeq(scanArg.in.entries, Checked))
          /\ scanRes.log = <<>>

C15_Witness ==
    /\ PatternCall
    /\ scanArg.pattern = <<"z", "y", "g", "o", "t", "e">>
    /\ ListingRead
    /\ Len(scanArg.in.entries) = 2
    /\ scanArg.in.entries[1].name = <<"1">>
    /\ scanArg.in.entries[1].isDir
    /\ ~scanArg.in.entries[1].exists
    /\ scanRes.ids = <<2>>

(***************************************************************************)
(* SyscallOptimizer: validation of the thread ID                           *)
(***************************************************************************)
Attempts == {i \in 1..Len(trace) : trace[i].ev /= "sleep"}

\* the thread was gone in every attempt of the retrying call
Vanished == trace /= <<>> /\ \A i \in Attempts : ~trace[i].exists

\* C16: an attempt makes the system call only if the thread ID passed
\* validation in that attempt; for a thread that has vanished the call
\* makes 3 attempts and no system call and returns false, and the thread
\* is tallied as one failure.
C16_ValidatedBeforeCall ==
    /\ \A i \in Attempts :
          /\ trace[i].called => (trace[i].exists /\ 0 < curTid /\ curTid < 99999)
          /\ ~trace[i].exists => (~trace[i].called /\ trace[i].ev = "invalid")
    /\ (Returned /\ Vanished) =>
          /\ ~opRet
          /\ Cardinality(Attempts) = 3
          /\ \A i \in Attempts : ~trace[i].called
    /\ (pc = "logfail" /\ Vanished) =>
          /\ call.failed /= <<>>
          /\ call.failed[Len(call.failed)] = curTid
          /\ stats.failureCount = call.entry.failureCount + Len(call.failed)
          /\ stats.successCount = call.entry.successCount + call.optTrue
          /\ stats.totalOps = stats.successCount + stats.failureCount

C16_Witness ==
    /\ pc = "logfail"
    /\ Vanished
    /\ Len(trace) = 5
    /\ trace[1].op = "setNice"
    /\ stats = [successCount |-> 0, failureCount |-> 1, totalOps |-> 1]

(***************************************************************************)
(* CPUTopology::detectCores                                                *)
(***************************************************************************)
\* thread t's detection runs in this step, and raises no exception
Detects(t) == gpc[t] = "detecting" /\ gpc'[t] = "returned"

DetectsQuietly(t) == Detects(t) /\ log' = log

AllReadable == \A i \in 1..Len(sysfs) : sysfs[i].kind = "value"

CoreIndices == [i \in 1..Len(sysfs) |-> i - 1]

AboveThreshold(c) == sysfs[c + 1].v > 2000000

\* C17: when every core's max-frequency file is there and holds a number,
\* a detection counts the cores up to the first index without such a file
\* and classifies core i as performance exactly if its frequency is above
\* 2,000,000.
C17_SequentialProbe ==
    [][\A t \in Threads :
          (DetectsQuietly(t) /\ AllReadable) =>
              cache'[gfn[t]] =
                  [perfCores |-> SelectSeq(CoreIndices, AboveThreshold),
                   effCores |-> SelectSeq(CoreIndices, LAMBDA c : ~AboveThreshold(c)),
                   totalCores |-> Len(sysfs)]]_vars

\* core c is reached by the probe, and what its file holds is no number
Unparsable(c) ==
    /\ c < 16
    /\ c + 1 <= Len(sysfs)
    /\ \A j \in 1..c : sysfs[j].kind /= "absent"
    /\ sysfs[c + 1].kind \in {"garbage", "empty"}

\* C18: a detection that meets a frequency value it cannot parse yields
\* the default topology and logs the warning.
C18_ParseFailureDefaults ==
    [][\A t \in Threads :
          (Detects(t) /\ \E c \in 0..15 : Unparsable(c)) =>
              (cache'[gfn[t]] = DefaultInfo /\ TopologyWarning \in Range(log'))]_vars

(***************************************************************************)
(* The counters in the sequential run                                      *)
(***************************************************************************)
\* between the two increments of recordSuccess or recordFailure
InsideRecord == pc \in {"success2", "failure2"}

\* no optimizer call is under way or waiting to be tallied
Tallied == pc \in {"pattern", "pid", "tid", "logfail", "report", "exit"}

\* optimizer calls made so far in the run
Invocations == call.prior + call.invoked

\* C19: outside recordSuccess and recordFailure, attempted is the sum of
\* succeeded and failed; whenever every optimizer call made has been
\* tallied (between threads, after each optimizePattern return, at report
\* time) attempted is the number of optimizer calls made in the run, and
\* at any other time it is one behind.
C19_AttemptedIsSum ==
    /\ ~InsideRecord => stats.totalOps = stats.successCount + stats.failureCount
    /\ Tallied => stats.totalOps = Invocations
    /\ (~Tallied /\ pc \notin {"main", "off", "aborted"}) => stats.totalOps + 1 = Invocations

C19_Witness ==
    /\ pc = "report"
    /\ stats = [successCount |-> 1, failureCount |-> 1, totalOps |-> 2]
    /\ call.prior = 2
    /\ call.invoked = 0

(***************************************************************************)
(* The tiers' composed operations                                          *)
(***************************************************************************)
\* the first n calls of the current tier's chain, each having returned r(i)
ChainPrefix(n, r(_)) ==
    [i \in 1..n |-> [op |-> TierChain(phase)[i].op, val |-> TierChain(phase)[i].val,
                     ret |-> r(i)]]

AllTrue(i) == TRUE

\* C20: the retrying calls of a tier's operation are made in the written
\* order, each only after all before it returned true; the thread is
\* tallied as a success exactly when all of them returned true and as a
\* failure when one returned false, after which no further call is made
\* for the thread: what the earlier calls set stays set.
C20_ShortCircuit ==
    /\ pc \in {"call", "arg", "attempt", "sleep", "opret"} =>
          call.chain = ChainPrefix(sysIdx - 1, AllTrue)
    /\ pc \in {"success1", "success2"} =>
          call.chain = ChainPrefix(Len(TierChain(phase)), AllTrue)
    /\ pc \in {"failure1", "failure2", "logfail"} =>
          /\ sysIdx <= Len(TierChain(phase))
          /\ call.chain = ChainPrefix(sysIdx, LAMBDA i : i < sysIdx)
          /\ call.failed /= <<>>
          /\ call.failed[Len(call.failed)] = curTid
    /\ (pc = "tid" /\ call.chain /= <<>>) =>
          \/ call.chain = ChainPrefix(Len(TierChain(phase)), AllTrue)
          \/ call.chain = ChainPrefix(Len(call.chain), LAMBDA i : i < Len(call.chain))

C20_Witness ==
    /\ pc = "logfail"
    /\ phase = "Low"
    /\ Len(call.chain) = 3
    /\ call.chain[1] = [op |-> "setNice", val |-> 5, ret |-> TRUE]
    /\ call.chain[2].op = "setAffinity"
    /\ call.chain[2].ret
    /\ call.chain[3].op = "setIOPrio"
    /\ ~call.chain[3].ret

=============================================================================
